---- MODULE Spec2Model ----
(***************************************************************************)
(* Supervising dispatcher (SupervisorAgent.route_query) with its response  *)
(* cache, conversation memory and performance monitor.                     *)
(*                                                                         *)
(* Text is a sequence of one-character strings.  An optional value is a    *)
(* sequence of length at most one: None is <<>>, Some(x) is <<x>>.         *)
(* A dict of filters is a sequence of <<key, value>> pairs in insertion    *)
(* order.  The md5 digest of the joined key parts is taken to be           *)
(* collision free, so a cache key is the list of key parts itself.         *)
(***************************************************************************)
EXTENDS Integers, Sequences, FiniteSets, TLC

VARIABLES
    enable_cache, enable_memory, enable_monitoring,
    cache, cacheFile,
    sessions, memFiles,
    metrics, logFile,
    now,
    lastCall, lastCache,
    nOps, nCalls, nRaised,
    max_history, appendLog, lastMem, peerSessions,
    feedbacks, feedbackFile, fbUp, lastFb

vars == <<enable_cache, enable_memory, enable_monitoring, cache, cacheFile,
          sessions, memFiles, metrics, logFile, now, lastCall, lastCache,
          nOps, nCalls, nRaised, max_history, appendLog, lastMem,
          peerSessions,
          feedbacks, feedbackFile, fbUp, lastFb>>

flagVars == <<enable_cache, enable_memory, enable_monitoring>>
cacheVars == <<cache, cacheFile>>
memVars == <<sessions, memFiles>>
monVars == <<metrics, logFile>>
callVars == <<lastCall, nCalls, nRaised>>
(* max_history of the ConversationMemory; appendLog and lastMem record the *)
(* calls made on it                                                        *)
(* peerSessions: self.sessions of a second ConversationMemory over the *)
(* same folder                                                         *)
memAuxVars == <<max_history, appendLog, lastMem, peerSessions>>
(* fbUp: a FeedbackCollector was constructed; lastFb records the calls *)
fbVars == <<feedbacks, feedbackFile, fbUp, lastFb>>

----------------------------------------------------------------------------
(* Bounds of the exploration *)

MaxCalls == 2
MaxCacheOps == 3
MaxMemOps == 6
MaxMaxHistory == 3
MaxLogged == 11
MaxLoggedRestart == 3
MaxFeedbacks == 5
MaxFbOps == 4
MaxRawTokens == 2
MaxQueryTokens == 2
MaxPlainCalls == 1
MaxClock == 48
TickHours == 24

----------------------------------------------------------------------------
(* Optional values *)

None == <<>>
Some(x) == <<x>>
IsNone(o) == Len(o) = 0
IsSome(o) == Len(o) = 1
Val(o) == o[1]

EmptyMap == [k \in {} |-> {}]
Min(a, b) == IF a <= b THEN a ELSE b
Range(f) == {f[i] : i \in DOMAIN f}

----------------------------------------------------------------------------
(* Text helpers: str.lower, str.strip, the `in` substring test, len *)

UpperLetters ==
    <<"A", "B", "C", "D", "E", "F", "G", "H", "I", "J", "K", "L", "M",
      "N", "O", "P", "Q", "R", "S", "T", "U", "V", "W", "X", "Y", "Z">>
LowerLetters ==
    <<"a", "b", "c", "d", "e", "f", "g", "h", "i", "j", "k", "l", "m",
      "n", "o", "p", "q", "r", "s", "t", "u", "v", "w", "x", "y", "z">>

UpperToLower ==
    [c \in Range(UpperLetters) |->
        LowerLetters[CHOOSE i \in DOMAIN UpperLetters : UpperLetters[i] = c]]

LowerChar(c) == IF c \in DOMAIN UpperToLower THEN UpperToLower[c] ELSE c

Lower(s) == [i \in 1..Len(s) |-> LowerChar(s[i])]

Whitespace == {" ", "\n", "\t"}

RECURSIVE LStrip(_)
LStrip(s) ==
    IF s # <<>> /\ Head(s) \in Whitespace THEN LStrip(Tail(s)) ELSE s

RECURSIVE RStrip(_)
RStrip(s) ==
    IF s # <<>> /\ s[Len(s)] \in Whitespace
    THEN RStrip(SubSeq(s, 1, Len(s) - 1))
    ELSE s

Strip(s) == RStrip(LStrip(s))

Contains(s, p) ==
    \E i \in 0..(Len(s) - Len(p)) : SubSeq(s, i + 1, i + Len(p)) = p

(* Python truthiness of a str, a dict and an Optional[str] *)
Truthy(s) == Len(s) > 0
TruthyOpt(o) == IsSome(o) /\ Truthy(Val(o))

----------------------------------------------------------------------------
(* ResponseCache *)

TTL == 24

(* json.dumps(filters, sort_keys=True): the pairs in ascending key order. *)
(* KeyOrder lists the filter keys of the model in lexicographic order.    *)
KeyOrder == <<"doc_type", "loan_type">>

KeyRank(k) == CHOOSE i \in 1..Len(KeyOrder) : KeyOrder[i] = k

RECURSIVE InsertPair(_, _)
InsertPair(p, sorted) ==
    IF sorted = <<>> THEN <<p>>
    ELSE IF KeyRank(p[1]) <= KeyRank(Head(sorted)[1])
         THEN <<p>> \o sorted
         ELSE <<Head(sorted)>> \o InsertPair(p, Tail(sorted))

RECURSIVE DumpsSorted(_)
DumpsSorted(d) ==
    IF d = <<>> THEN <<>> ELSE InsertPair(Head(d), DumpsSorted(Tail(d)))

GenerateKey_CaseSensitive(query, agent_type, filters) ==
    LET key_parts == <<Strip(query), agent_type>>
    IN  IF TruthyOpt(filters)
        THEN Append(key_parts, DumpsSorted(Val(filters)))
        ELSE key_parts

(* _generate_key: filters is an optional dict *)
GenerateKey(query, agent_type, filters) ==
    LET key_parts == <<Strip(Lower(query)), agent_type>>
    IN  IF TruthyOpt(filters)
        THEN Append(key_parts, DumpsSorted(Val(filters)))
        ELSE key_parts

Expired(entry, t) == t - entry.timestamp > TTL

MapPut(m, k, v) == [x \in DOMAIN m \cup {k} |-> IF x = k THEN v ELSE m[x]]
MapDel(m, k) == [x \in DOMAIN m \ {k} |-> m[x]]

(* _save_cache: writes the whole mapping; an I/O error leaves the file *)
SaveCache(c, file, ioOK) == IF ioOK THEN c ELSE file

GetOutcome_NoSave(c, file, query, agent_type, filters, t, ioOK) ==
    LET key == GenerateKey(query, agent_type, filters)
    IN  IF key \notin DOMAIN c
        THEN [value |-> None, cache |-> c, file |-> file, raised |-> FALSE]
        ELSE IF Expired(c[key], t)
        THEN [value |-> None, cache |-> MapDel(c, key), file |-> file,
              raised |-> FALSE]
        ELSE [value |-> Some(c[key].response), cache |-> c, file |-> file,
              raised |-> FALSE]

GetOutcome_PopOnHit(c, file, query, agent_type, filters, t, ioOK) ==
    LET key == GenerateKey(query, agent_type, filters)
    IN  IF key \notin DOMAIN c
        THEN [value |-> None, cache |-> c, file |-> file, raised |-> FALSE]
        ELSE [value |-> IF Expired(c[key], t) THEN None
                        ELSE Some(c[key].response),
              cache |-> MapDel(c, key),
              file |-> SaveCache(MapDel(c, key), file, ioOK),
              raised |-> ~ioOK]

(* get: the returned value, the mapping and the file afterwards, and   *)
(* whether the call raised (only the save of an eviction can raise)    *)
GetOutcome(c, file, query, agent_type, filters, t, ioOK) ==
    LET key == GenerateKey(query, agent_type, filters)
    IN  IF key \notin DOMAIN c
        THEN [value |-> None, cache |-> c, file |-> file, raised |-> FALSE]
        ELSE IF Expired(c[key], t)
        THEN [value |-> None, cache |-> MapDel(c, key),
              file |-> SaveCache(MapDel(c, key), file, ioOK),
              raised |-> ~ioOK]
        ELSE [value |-> Some(c[key].response), cache |-> c, file |-> file,
              raised |-> FALSE]

(* set *)
SetOutcome_SaveFirst(c, file, query, agent_type, response, filters, t, ioOK) ==
    LET key == GenerateKey(query, agent_type, filters)
        entry == [query |-> query, agent_type |-> agent_type,
                  response |-> response, timestamp |-> t,
                  filters |-> filters]
        c2 == MapPut(c, key, entry)
    IN  [cache |-> c2, file |-> SaveCache(c, file, ioOK), raised |-> ~ioOK]

SetOutcome(c, file, query, agent_type, response, filters, t, ioOK) ==
    LET key == GenerateKey(query, agent_type, filters)
        entry == [query |-> query, agent_type |-> agent_type,
                  response |-> response, timestamp |-> t,
                  filters |-> filters]
        c2 == MapPut(c, key, entry)
    IN  [cache |-> c2, file |-> SaveCache(c2, file, ioOK), raised |-> ~ioOK]

(* clear_expired: drops the expired entries, saves only when some were *)
ClearExpiredOutcome(c, file, t, ioOK) ==
    LET keys_to_remove == {k \in DOMAIN c : Expired(c[k], t)}
        c2 == [k \in DOMAIN c \ keys_to_remove |-> c[k]]
        saved == Cardinality(keys_to_remove) > 0
    IN  [cache |-> c2,
         file |-> IF saved THEN SaveCache(c2, file, ioOK) ELSE file,
         removed_count |-> Cardinality(keys_to_remove),
         raised |-> saved /\ ~ioOK]

(* _load_cache: the file's mapping with the expired entries swept *)
LoadOutcome(file, t, ioOK) == ClearExpiredOutcome(file, file, t, ioOK)

(* get_stats()['total_entries'] *)
TotalEntries(c) == Cardinality(DOMAIN c)

(* get_stats: the whole dict it returns *)
CacheStats(c) ==
    LET agents == {c[k].agent_type : k \in DOMAIN c}
    IN  [total_entries |-> TotalEntries(c),
         by_agent |-> [a \in agents |->
                          Cardinality({k \in DOMAIN c : c[k].agent_type = a})],
         ttl_hours |-> TTL]

----------------------------------------------------------------------------
(* ConversationMemory *)

SupervisorMaxHistory == 10

(* the slice history[-n:] for n >= 0; -0 is 0, so n = 0 keeps everything *)
LastN(h, n) ==
    IF n = 0 \/ n >= Len(h) THEN h ELSE SubSeq(h, Len(h) - n + 1, Len(h))

SaveSession_Append(sess, files, session_id, ioOK) ==
    IF ioOK
    THEN MapPut(files, session_id,
                Append(IF session_id \in DOMAIN files
                       THEN files[session_id] ELSE <<>>,
                       sess[session_id][Len(sess[session_id])]))
    ELSE files

(* _save_session: rewrites the session's file; an I/O error leaves it *)
SaveSession(sess, files, session_id, ioOK) ==
    IF ioOK THEN MapPut(files, session_id, sess[session_id]) ELSE files

AddExchangeOutcome_KeepFirst(sess, files, limit, session_id, user_query, agent_response, agent_type, t, ioOK) ==
    LET old == IF session_id \in DOMAIN sess THEN sess[session_id] ELSE <<>>
        exchange == [timestamp |-> t, user |-> user_query,
                     agent |-> agent_response, agent_type |-> agent_type]
        appended == Append(old, exchange)
        trimmed == IF Len(appended) > limit
                   THEN SubSeq(appended, 1, limit)
                   ELSE appended
        sess2 == MapPut(sess, session_id, trimmed)
    IN  [sessions |-> sess2,
         files |-> SaveSession(sess2, files, session_id, ioOK),
         raised |-> ~ioOK]

(* add_exchange; limit is self.max_history *)
AddExchangeOutcome(sess, files, limit, session_id, user_query, agent_response, agent_type, t, ioOK) ==
    LET old == IF session_id \in DOMAIN sess THEN sess[session_id] ELSE <<>>
        exchange == [timestamp |-> t, user |-> user_query,
                     agent |-> agent_response, agent_type |-> agent_type]
        appended == Append(old, exchange)
        trimmed == IF Len(appended) > limit
                   THEN LastN(appended, limit)
                   ELSE appended
        sess2 == MapPut(sess, session_id, trimmed)
    IN  [sessions |-> sess2,
         files |-> SaveSession(sess2, files, session_id, ioOK),
         raised |-> ~ioOK]

GetHistory_FirstN(sess, session_id, last_n) ==
    IF session_id \notin DOMAIN sess THEN <<>>
    ELSE IF IsSome(last_n) /\ Val(last_n) # 0
         THEN SubSeq(sess[session_id], 1,
                     Min(Val(last_n), Len(sess[session_id])))
         ELSE sess[session_id]

(* get_history: last_n is an optional int *)
GetHistory(sess, session_id, last_n) ==
    IF session_id \notin DOMAIN sess THEN <<>>
    ELSE IF IsSome(last_n) /\ Val(last_n) # 0
         THEN LastN(sess[session_id], Val(last_n))
         ELSE sess[session_id]

(* clear_session: the file is looked at only for a session held in memory *)
ClearSessionOutcome(sess, files, session_id) ==
    IF session_id \in DOMAIN sess
    THEN [sessions |-> MapDel(sess, session_id),
          files |-> IF session_id \in DOMAIN files
                    THEN MapDel(files, session_id) ELSE files]
    ELSE [sessions |-> sess, files |-> files]

(* load_session: reads the session's file, False when there is none *)
LoadSessionOutcome(sess, files, session_id) ==
    IF session_id \notin DOMAIN files
    THEN [sessions |-> sess, value |-> FALSE]
    ELSE [sessions |-> MapPut(sess, session_id, files[session_id]),
          value |-> TRUE]

----------------------------------------------------------------------------
(* PerformanceMonitor *)

(* log_query: the entry appended to self.metrics and to the day's file *)
LogEntry(session_id, query, agent_type, response, response_time, success, error, t) ==
    [timestamp |-> t, session_id |-> session_id, query |-> query,
     agent_type |-> agent_type, response_length |-> Len(response),
     response_time_seconds |-> response_time, success |-> success,
     error |-> error]

SuccessCount_All(m) == Len(m)

(* get_stats *)
SuccessCount(m) == Cardinality({i \in 1..Len(m) : m[i].success})

GetStats(m) ==
    IF Len(m) = 0
    THEN [total_queries |-> 0, success_count |-> 0, error_count |-> 0]
    ELSE [total_queries |-> Len(m), success_count |-> SuccessCount(m),
          error_count |-> Len(m) - SuccessCount(m)]

(* detect_anomalies.  Response times are whole seconds here, so the mean  *)
(* and the comparison with twice the mean are exact: time > 2 * sum / n    *)
(* is time * n > 2 * sum.  round(threshold, 2) is kept in hundredths.      *)
AnomalyFloor == 5
AnomalyWindow == 10
QueryPreview == 50

RECURSIVE SumTimes(_)
SumTimes(m) ==
    IF m = <<>> THEN 0
    ELSE Head(m).response_time_seconds + SumTimes(Tail(m))

(* the slice text[:n] *)
Prefix(text, n) == SubSeq(text, 1, Min(n, Len(text)))

RoundDiv_Floor(a, b) == a \div b

(* a / b rounded to the nearest integer, ties to the even one *)
RoundDiv(a, b) ==
    LET q == a \div b
        r == a % b
    IN  IF 2 * r > b \/ (2 * r = b /\ q % 2 = 1) THEN q + 1 ELSE q

(* what one pass of the loop body appends for one entry *)
EntryAnomalies(metric, sum, n) ==
    (IF metric.response_time_seconds * n > 2 * sum
     THEN <<[type |-> "slow_query",
             query |-> Prefix(metric.query, QueryPreview),
             time |-> metric.response_time_seconds,
             threshold_hundredths |-> RoundDiv(200 * sum, n)]>>
     ELSE <<>>)
    \o (IF ~metric.success
        THEN <<[type |-> "error",
                query |-> Prefix(metric.query, QueryPreview),
                error |-> metric.error]>>
        ELSE <<>>)

RECURSIVE ScanAnomalies(_, _, _)
ScanAnomalies(entries, sum, n) ==
    IF entries = <<>> THEN <<>>
    ELSE EntryAnomalies(Head(entries), sum, n)
         \o ScanAnomalies(Tail(entries), sum, n)

DetectAnomalies_NoFloor(m) ==
    IF Len(m) = 0 THEN <<>>
    ELSE ScanAnomalies(LastN(m, AnomalyWindow), SumTimes(m), Len(m))

DetectAnomalies_NoWindow(m) ==
    IF Len(m) < AnomalyFloor THEN <<>>
    ELSE ScanAnomalies(m, SumTimes(m), Len(m))

DetectAnomalies(m) ==
    IF Len(m) < AnomalyFloor THEN <<>>
    ELSE ScanAnomalies(LastN(m, AnomalyWindow), SumTimes(m), Len(m))

----------------------------------------------------------------------------
(* FeedbackCollector.  avg_rating is kept in hundredths and               *)
(* satisfaction_rate in tenths of a percent, as round(x, 2) and            *)
(* round(x, 1) leave them.                                                 *)

ResponseKept == 200

(* add_feedback: the record appended to self.feedbacks and to the file *)
Feedback(fbs, session_id, query, response, rating, comment, agent_type, t) ==
    [id |-> Len(fbs) + 1, timestamp |-> t, session_id |-> session_id,
     query |-> query, response |-> Prefix(response, ResponseKept),
     rating |-> rating, comment |-> comment, agent_type |-> agent_type]

(* a line of feedbacks.jsonl: json.dumps of a feedback, a blank line, or *)
(* text json.loads rejects (a cut-off or damaged record)                 *)
JsonLine(feedback) == [kind |-> "json", value |-> feedback]
BlankLine == [kind |-> "blank", value |-> <<>>]
CorruptLine == [kind |-> "corrupt", value |-> <<>>]

(* _save_feedback: appends one line *)
SaveFeedback(file, feedback) == Append(file, JsonLine(feedback))

(* _load_feedback on the lines of the file, appending to loaded; blank   *)
(* lines are skipped, json.loads raises on the first line it rejects     *)
RECURSIVE LoadLines(_, _)
LoadLines(lines, loaded) ==
    IF lines = <<>> THEN [feedbacks |-> loaded, raised |-> FALSE]
    ELSE IF Head(lines).kind = "blank" THEN LoadLines(Tail(lines), loaded)
    ELSE IF Head(lines).kind = "json"
    THEN LoadLines(Tail(lines), Append(loaded, Head(lines).value))
    ELSE [feedbacks |-> loaded, raised |-> TRUE]

(* _load_feedback *)
LoadFeedback(file) == LoadLines(file, <<>>)

RECURSIVE SumSeq(_)
SumSeq(xs) == IF xs = <<>> THEN 0 ELSE Head(xs) + SumSeq(Tail(xs))

(* sum(1 for r in ratings if r >= 4) and sum(1 for r in ratings if r < 4) *)
CountUp(ratings) == Len(SelectSeq(ratings, LAMBDA r : r >= 4))
CountDown(ratings) == Len(SelectSeq(ratings, LAMBDA r : r < 4))

(* the keys of by_agent in insertion order: agent types by first use *)
RECURSIVE AgentOrder(_)
AgentOrder(fbs) ==
    IF fbs = <<>> THEN <<>>
    ELSE LET before == AgentOrder(SubSeq(fbs, 1, Len(fbs) - 1))
             agent == fbs[Len(fbs)].agent_type
         IN  IF agent \in Range(before) THEN before ELSE Append(before, agent)

(* by_agent[agent]['ratings'] *)
AgentRatings(fbs, agent) ==
    LET own == SelectSeq(fbs, LAMBDA fb : fb.agent_type = agent)
    IN  [i \in 1..Len(own) |-> own[i].rating]

(* get_feedback_stats.  The loop that computes the averages per agent     *)
(* assigns each agent's list to the local name `ratings`, the name the    *)
(* thumbs counts read afterwards: they see the list of the last agent     *)
(* of by_agent.                                                            *)
GetFeedbackStats(fbs) ==
    IF Len(fbs) = 0
    THEN [total_feedbacks |-> 0, avg_rating |-> 0, satisfaction_rate |-> 0]
    ELSE LET total == Len(fbs)
             ratings == [i \in 1..total |-> fbs[i].rating]
             satisfied == CountUp(ratings)
             order == AgentOrder(fbs)
             ratings_after_loop == AgentRatings(fbs, order[Len(order)])
         IN  [total_feedbacks |-> total,
              avg_rating |-> RoundDiv(100 * SumSeq(ratings), total),
              satisfaction_rate |-> RoundDiv(1000 * satisfied, total),
              thumbs_up |-> CountUp(ratings_after_loop),
              thumbs_down |-> CountDown(ratings_after_loop),
              by_agent |->
                  [a \in Range(order) |->
                      [count |-> Len(AgentRatings(fbs, a)),
                       avg_rating |->
                           RoundDiv(100 * SumSeq(AgentRatings(fbs, a)),
                                    Len(AgentRatings(fbs, a)))]]]

----------------------------------------------------------------------------
(* SupervisorAgent *)

W_marketing == <<"m", "a", "r", "k", "e", "t", "i", "n", "g">>
W_email == <<"e", "m", "a", "i", "l">>
W_sms == <<"s", "m", "s">>
W_blog == <<"b", "l", "o", "g">>
W_poster == <<"p", "o", "s", "t", "e", "r">>
W_self_hyphen == <<"s", "e", "l", "f", "-", "e", "m", "p", "l", "o", "y", "e", "d">>
W_self_space == <<"s", "e", "l", "f", " ", "e", "m", "p", "l", "o", "y", "e", "d">>
W_young == <<"y", "o", "u", "n", "g">>
W_family == <<"f", "a", "m", "i", "l", "y">>
W_families == <<"f", "a", "m", "i", "l", "i", "e", "s">>

Classify_Exact(raw) ==
    IF Lower(Strip(raw)) = W_marketing THEN "marketing"
    ELSE "knowledge"

(* classify_query, applied to the text the completion call returned *)
Classify(raw) ==
    IF Contains(Lower(Strip(raw)), W_marketing) THEN "marketing"
    ELSE "knowledge"

CampaignType_SmsFirst(query) ==
    LET q == Lower(query)
    IN  IF Contains(q, W_sms) THEN "sms"
        ELSE IF Contains(q, W_email) THEN "email"
        ELSE IF Contains(q, W_blog) THEN "blog"
        ELSE IF Contains(q, W_poster) THEN "poster"
        ELSE "social_media"

(* route_query, lines 158-168 and 170-175 *)
CampaignType(query) ==
    LET q == Lower(query)
    IN  IF Contains(q, W_email) THEN "email"
        ELSE IF Contains(q, W_sms) THEN "sms"
        ELSE IF Contains(q, W_blog) THEN "blog"
        ELSE IF Contains(q, W_poster) THEN "poster"
        ELSE "social_media"

TargetAudience(query) ==
    LET q == Lower(query)
    IN  IF Contains(q, W_self_hyphen) \/ Contains(q, W_self_space)
        THEN "self_employed"
        ELSE IF Contains(q, W_young) THEN "young_professionals"
        ELSE IF Contains(q, W_family) \/ Contains(q, W_families)
        THEN "families"
        ELSE "salaried"

(* the agent tag route_query looks the cache up with, and the one it *)
(* stores the response under                                          *)
LookupTag == "any"
StoreTag(agent_type) == agent_type

(* the dict returned on a cache hit *)
CachedResult(cached_response) ==
    [agent |-> "cached", response_type |-> "cached",
     answer |-> cached_response, from_cache |-> TRUE]

(* the dict built after the responder returned; it carries no   *)
(* from_cache key, which callers read as result.get(..., False) *)
AgentResult(agent_type, response) ==
    [agent |-> agent_type,
     response_type |-> IF agent_type = "marketing" THEN "campaign" ELSE "answer",
     answer |-> response, from_cache |-> FALSE]

Invocation_Swapped(agent_type, query, filters) ==
    IF agent_type = "marketing"
    THEN [agent |-> "knowledge", campaign_type |-> "", target_audience |-> "",
          filters |-> filters]
    ELSE [agent |-> "marketing", campaign_type |-> CampaignType(query),
          target_audience |-> TargetAudience(query), filters |-> None]

(* the responder call route_query makes for a classification *)
Invocation(agent_type, query, filters) ==
    IF agent_type = "marketing"
    THEN [agent |-> "marketing", campaign_type |-> CampaignType(query),
          target_audience |-> TargetAudience(query), filters |-> None]
    ELSE [agent |-> "knowledge", campaign_type |-> "", target_audience |-> "",
          filters |-> filters]

CacheWriteError == "cache write failed"
MemoryWriteError == "memory write failed"

(* One outcome of the try block of route_query:                          *)
(*   status    "returned" or "raised"                                    *)
(*   returned  the value handed to the caller, if any                    *)
(*   result    the local variable result when the finally clause runs    *)
(*             (None is the empty dict)                                  *)
(*   error     str(e) of the exception, if any                           *)
(*   trace     the steps executed, in order                              *)
(*   invoked   the responder call made, if any                           *)
(*   fault     the step whose storage write failed, if any               *)
Outcome(status, returned, result, error, trace, invoked, fault, c, file, sess, files) ==
    [status |-> status, returned |-> returned, result |-> result,
     error |-> error, trace |-> trace, invoked |-> invoked, fault |-> fault,
     cache |-> c, file |-> file, sessions |-> sess, files |-> files]

(* lines 205-218: cache write, memory write, return *)
PersistOutcome(query, session_id, agent_type, response, res, trace, invoked, c, file, t, cacheIO, memIO) ==
    LET s == IF enable_cache
             THEN SetOutcome(c, file, query, StoreTag(agent_type), response,
                             None, t, cacheIO)
             ELSE [cache |-> c, file |-> file, raised |-> FALSE]
        tr1 == IF enable_cache THEN Append(trace, "cache_set") ELSE trace
        m == IF enable_memory
             THEN AddExchangeOutcome(sessions, memFiles, SupervisorMaxHistory,
                                     session_id, query, response, agent_type,
                                     t, memIO)
             ELSE [sessions |-> sessions, files |-> memFiles, raised |-> FALSE]
        tr2 == IF enable_memory THEN Append(tr1, "memory_add") ELSE tr1
    IN  IF s.raised
        THEN Outcome("raised", None, Some(res), Some(CacheWriteError), tr1,
                     invoked, Some("cache_set"), s.cache, s.file, sessions, memFiles)
        ELSE IF m.raised
        THEN Outcome("raised", None, Some(res), Some(MemoryWriteError), tr2,
                     invoked, Some("memory_add"), s.cache, s.file, m.sessions, m.files)
        ELSE Outcome("returned", Some(res), Some(res), None, tr2,
                     invoked, None, s.cache, s.file, m.sessions, m.files)

(* lines 145-203: context, classification, responder invocation *)
DispatchOutcome(query, session_id, filters, clsOut, respOut, trace, c, file, t, cacheIO, memIO) ==
    LET tr1 == IF enable_memory THEN Append(trace, "memory_read") ELSE trace
        tr2 == Append(tr1, "classify")
        agent_type == Classify(clsOut.text)
        invoked == Invocation(agent_type, query, filters)
        tr3 == Append(tr2, "respond_" \o invoked.agent)
    IN  IF ~clsOut.ok
        THEN Outcome("raised", None, None, Some(clsOut.error), tr2, None,
                     None, c, file, sessions, memFiles)
        ELSE IF ~respOut.ok
        THEN Outcome("raised", None, None, Some(respOut.error), tr3,
                     Some(invoked), None, c, file, sessions, memFiles)
        ELSE PersistOutcome(query, session_id, agent_type, respOut.text,
                            AgentResult(agent_type, respOut.text), tr3,
                            Some(invoked), c, file, t, cacheIO, memIO)

(* lines 133-223: the try block *)
TryOutcome(query, session_id, filters, clsOut, respOut, t, cacheIO, memIO) ==
    LET g == IF enable_cache
             THEN GetOutcome(cache, cacheFile, query, LookupTag, None, t, cacheIO)
             ELSE [value |-> None, cache |-> cache, file |-> cacheFile,
                   raised |-> FALSE]
        tr == IF enable_cache THEN <<"cache_get">> ELSE <<>>
    IN  IF g.raised
        THEN Outcome("raised", None, None, Some(CacheWriteError), tr, None,
                     Some("cache_get"), g.cache, g.file, sessions, memFiles)
        ELSE IF TruthyOpt(g.value)
        THEN Outcome("returned", Some(CachedResult(Val(g.value))), None, None,
                     tr, None, None, g.cache, g.file, sessions, memFiles)
        ELSE DispatchOutcome(query, session_id, filters, clsOut, respOut, tr,
                             g.cache, g.file, t, cacheIO, memIO)

FinallyEntry_DropsError(o, session_id, query, response_time, t) ==
    LogEntry(session_id, query,
             IF IsSome(o.result) THEN Val(o.result).agent ELSE "error",
             IF IsSome(o.result) THEN Val(o.result).answer ELSE <<>>,
             response_time, o.status = "returned", None, t)

(* lines 225-237: the entry the finally clause logs *)
FinallyEntry(o, session_id, query, response_time, t) ==
    LogEntry(session_id, query,
             IF IsSome(o.result) THEN Val(o.result).agent ELSE "error",
             IF IsSome(o.result) THEN Val(o.result).answer ELSE <<>>,
             response_time, o.status = "returned", o.error, t)

----------------------------------------------------------------------------
(* Inputs *)

Q_hi == <<"h", "i">>
Q_Hi_sp == <<"H", "i", " ">>
Q_sms == <<"S", "M", "S">>

A_ok == <<"o", "k">>
A_no == <<"n", "o">>
A_empty == <<>>

Raw_knowledge == <<"k", "n", "o", "w", "l", "e", "d", "g", "e">>
Raw_Marketing == <<" ", "M", "a", "r", "k", "e", "t", "i", "n", "g", "\n">>

F_two == <<<<"loan_type", "home">>, <<"doc_type", "faq">>>>
F_two_rev == <<<<"doc_type", "faq">>, <<"loan_type", "home">>>>
F_one == <<<<"doc_type", "faq">>>>

Sessions == {"s1", "s2"}
DispatchQueries == {Q_hi, Q_sms}
DispatchFilters == {None}
ClassifierOutcomes ==
    {[ok |-> TRUE, text |-> Raw_knowledge, error |-> ""],
     [ok |-> TRUE, text |-> Raw_Marketing, error |-> ""],
     [ok |-> FALSE, text |-> <<>>, error |-> "classifier failed"]}
ResponderOutcomes ==
    {[ok |-> TRUE, text |-> A_ok, error |-> ""],
     [ok |-> FALSE, text |-> <<>>, error |-> "responder failed"]}
ElapsedTimes == {1}

(* What the collaborators and the storage do during one call.  An input *)
(* the call cannot reach (the responder after a failed classification,  *)
(* the memory write after a failed responder or cache write) is fixed.  *)
Answered == [ok |-> TRUE, text |-> A_ok, error |-> ""]
Scenarios ==
    {x \in [cls : ClassifierOutcomes, resp : ResponderOutcomes,
            cacheIO : BOOLEAN, memIO : BOOLEAN] :
        /\ ~x.cls.ok => x.resp = Answered
        /\ (~x.cls.ok \/ ~x.resp.ok \/ ~x.cacheIO) => x.memIO}

(* what response_cache.json holds when the supervisor is constructed: *)
(* nothing, or an entry an earlier cache.set stored under the lookup   *)
(* tag at time 0                                                       *)
SeedResponses == {A_no, A_empty}
InitialCacheFiles ==
    {EmptyMap} \cup
    {SetOutcome(EmptyMap, EmptyMap, Q_hi, LookupTag, r, None, 0, TRUE).file :
        r \in SeedResponses}

(* the (query, agent_type, filters) arguments of the direct cache calls *)
Req(query, agent_type, filters) ==
    [query |-> query, agent_type |-> agent_type, filters |-> filters]

CacheRequests ==
    {Req(Q_hi, "knowledge", None), Req(Q_Hi_sp, "knowledge", None),
     Req(Q_hi, "knowledge", Some(<<>>)), Req(Q_hi, "any", None),
     Req(Q_hi, "knowledge", Some(F_two)),
     Req(Q_Hi_sp, "knowledge", Some(F_two_rev)),
     Req(Q_sms, "knowledge", Some(F_one))}
CacheResponses == {A_ok, A_empty}

----------------------------------------------------------------------------
(* State *)

NoCall ==
    [seq |-> 0, query |-> <<>>, session_id |-> "", filters |-> None,
     status |-> "none", returned |-> None, error |-> None, trace |-> <<>>,
     raw |-> None, invoked |-> None, fault |-> None, time |-> 0,
     emptyBefore |-> FALSE]

NoFbOp == [seq |-> 0, op |-> "none"]

NoMemOp ==
    [seq |-> 0, op |-> "none", session_id |-> "", last_n |-> None,
     result |-> <<>>]

NoCacheOp ==
    [seq |-> 0, op |-> "none", query |-> <<>>, agent_type |-> "",
     filters |-> None, value |-> None, found |-> None, time |-> 0,
     raised |-> FALSE, dirty |-> FALSE]

Init ==
    /\ enable_cache \in BOOLEAN
    /\ enable_memory \in BOOLEAN
    /\ enable_monitoring \in BOOLEAN
    /\ cacheFile \in InitialCacheFiles
    /\ cache = LoadOutcome(cacheFile, 0, TRUE).cache
    /\ sessions = EmptyMap
    /\ memFiles = EmptyMap
    /\ metrics = <<>>
    /\ logFile = <<>>
    /\ now = 0
    /\ lastCall = NoCall
    /\ lastCache = NoCacheOp
    /\ nOps = 0
    /\ nCalls = 0
    /\ nRaised = 0
    /\ max_history = SupervisorMaxHistory
    /\ appendLog = EmptyMap
    /\ lastMem = NoMemOp
    /\ peerSessions = EmptyMap
    /\ feedbacks = <<>>
    /\ feedbackFile = <<>>
    /\ fbUp = TRUE
    /\ lastFb = NoFbOp

(* SupervisorAgent.route_query *)
RouteQuery(query, session_id, filters, clsOut, respOut, cacheIO, memIO, rt) ==
    /\ nCalls < MaxCalls
    /\ \E o \in {TryOutcome(query, session_id, filters, clsOut, respOut, now,
                             cacheIO, memIO)} :
       LET entry == FinallyEntry(o, session_id, query, rt, now)
       IN  /\ cache' = o.cache
           /\ cacheFile' = o.file
           /\ sessions' = o.sessions
           /\ memFiles' = o.files
           /\ metrics' = IF enable_monitoring THEN Append(metrics, entry)
                         ELSE metrics
           /\ logFile' = IF enable_monitoring THEN Append(logFile, entry)
                         ELSE logFile
           /\ lastCall' = [seq |-> nOps + 1, query |-> query,
                           session_id |-> session_id, filters |-> filters,
                           status |-> o.status, returned |-> o.returned,
                           error |-> o.error,
                           trace |-> IF enable_monitoring
                                     THEN Append(o.trace, "log") ELSE o.trace,
                           raw |-> IF "classify" \in Range(o.trace) /\ clsOut.ok
                                   THEN Some(clsOut.text) ELSE None,
                           invoked |-> o.invoked, fault |-> o.fault,
                           time |-> now,
                           emptyBefore |-> cache = EmptyMap]
           /\ nRaised' = IF o.status = "raised" THEN nRaised + 1 ELSE nRaised
    /\ nOps' = nOps + 1
    /\ nCalls' = nCalls + 1
    /\ UNCHANGED <<memAuxVars, fbVars, flagVars, now, lastCache>>

(* the entry a request addresses, if any *)
Found(c, query, agent_type, filters) ==
    LET key == GenerateKey(query, agent_type, filters)
    IN  IF key \in DOMAIN c THEN Some(c[key]) ELSE None

(* the direct calls on the cache are counted by nOps - nCalls *)
CanCacheOp == nOps - nCalls < MaxCacheOps

(* ResponseCache.get, called on the cache directly; ioOK tells whether a *)
(* write to response_cache.json succeeds, a call whose write fails raises *)
(* after it has changed the mapping                                       *)
CacheGetIO(query, agent_type, filters, ioOK) ==
    /\ CanCacheOp
    /\ \E g \in {GetOutcome(cache, cacheFile, query, agent_type, filters, now,
                             ioOK)} :
           /\ cache' = g.cache
           /\ cacheFile' = g.file
           /\ lastCache' = [seq |-> nOps + 1, op |-> "get", query |-> query,
                            agent_type |-> agent_type, filters |-> filters,
                            value |-> IF g.raised THEN None ELSE g.value,
                            found |-> Found(cache, query, agent_type, filters),
                            time |-> now, raised |-> g.raised,
                            dirty |-> cache # cacheFile]
    /\ nOps' = nOps + 1
    /\ UNCHANGED <<memAuxVars, fbVars, flagVars, memVars, monVars, now,
                   callVars>>

CacheGet(query, agent_type, filters) ==
    CacheGetIO(query, agent_type, filters, TRUE)

(* ResponseCache.set, called on the cache directly *)
CacheSetIO(query, agent_type, response, filters, ioOK) ==
    /\ CanCacheOp
    /\ \E s \in {SetOutcome(cache, cacheFile, query, agent_type, response,
                             filters, now, ioOK)} :
           /\ cache' = s.cache
           /\ cacheFile' = s.file
           /\ lastCache' = [seq |-> nOps + 1, op |-> "set", query |-> query,
                            agent_type |-> agent_type, filters |-> filters,
                            value |-> Some(response),
                            found |-> Found(cache, query, agent_type, filters),
                            time |-> now, raised |-> s.raised,
                            dirty |-> cache # cacheFile]
    /\ nOps' = nOps + 1
    /\ UNCHANGED <<memAuxVars, fbVars, flagVars, memVars, monVars, now,
                   callVars>>

CacheSet(query, agent_type, response, filters) ==
    CacheSetIO(query, agent_type, response, filters, TRUE)

(* ResponseCache.clear *)
CacheClearIO(ioOK) ==
    /\ CanCacheOp
    /\ cache' = EmptyMap
    /\ cacheFile' = SaveCache(EmptyMap, cacheFile, ioOK)
    /\ lastCache' = [NoCacheOp EXCEPT !.seq = nOps + 1, !.op = "clear",
                                      !.time = now, !.raised = ~ioOK,
                                      !.dirty = cache # cacheFile]
    /\ nOps' = nOps + 1
    /\ UNCHANGED <<memAuxVars, fbVars, flagVars, memVars, monVars, now,
                   callVars>>

CacheClear == CacheClearIO(TRUE)

(* ResponseCache.clear_expired *)
CacheClearExpiredIO(ioOK) ==
    /\ CanCacheOp
    /\ \E x \in {ClearExpiredOutcome(cache, cacheFile, now, ioOK)} :
           /\ cache' = x.cache
           /\ cacheFile' = x.file
           /\ lastCache' = [NoCacheOp EXCEPT !.seq = nOps + 1,
                                             !.op = "clear_expired",
                                             !.time = now,
                                             !.raised = x.raised,
                                             !.dirty = cache # cacheFile]
    /\ nOps' = nOps + 1
    /\ UNCHANGED <<memAuxVars, fbVars, flagVars, memVars, monVars, now,
                   callVars>>

CacheClearExpired == CacheClearExpiredIO(TRUE)

(* the wall clock advances between calls *)
Tick ==
    /\ now + TickHours <= MaxClock
    /\ now' = now + TickHours
    /\ UNCHANGED <<memAuxVars, fbVars, flagVars, cacheVars, memVars, monVars,
                   callVars, lastCache,
                   nOps>>

DoRouteQuery ==
    \E query \in DispatchQueries, session_id \in Sessions,
       filters \in DispatchFilters, x \in Scenarios, rt \in ElapsedTimes :
        RouteQuery(query, session_id, filters, x.cls, x.resp, x.cacheIO,
                   x.memIO, rt)

Next == DoRouteQuery \/ Tick

Spec == Init /\ [][Next]_vars

----------------------------------------------------------------------------
(* The dispatcher with cache, memory and monitoring switched off, over    *)
(* classifier responses and query texts put together from short pieces.   *)

(* the texts made of at most n pieces of S, joined by sep *)
RECURSIVE Join(_, _)
Join(pieces, sep) ==
    IF pieces = <<>> THEN <<>>
    ELSE IF Len(pieces) = 1 THEN pieces[1]
    ELSE pieces[1] \o sep \o Join(Tail(pieces), sep)

Texts(S, n, sep) ==
    {Join(pieces, sep) : pieces \in UNION {[1..k -> S] : k \in 0..n}}

R_MARKETING == <<"M", "A", "R", "K", "E", "T", "I", "N", "G">>
R_market == <<"m", "a", "r", "k", "e", "t">>
R_ing == <<"i", "n", "g">>
R_space == <<" ">>
RawPieces == {W_marketing, R_MARKETING, R_market, R_ing, R_space}
RawResponses == Texts(RawPieces, MaxRawTokens, <<>>)

T_Email == <<"E", "m", "a", "i", "l">>
QueryPieces ==
    {T_Email, W_sms, W_blog, W_poster, W_self_hyphen, W_self_space,
     W_young, W_family, W_families}
KeywordQueries == Texts(QueryPieces, MaxQueryTokens, <<" ">>)

(* each query text with a 'marketing' classification, each classifier *)
(* response with a plain query                                        *)
PlainCalls ==
    {[query |-> q, raw |-> Raw_Marketing] : q \in KeywordQueries}
    \cup {[query |-> Q_hi, raw |-> r] : r \in RawResponses}

InitDispatch ==
    /\ Init
    /\ ~enable_cache /\ ~enable_memory /\ ~enable_monitoring
    /\ cacheFile = EmptyMap

DoRouteQueryPlain ==
    \E x \in PlainCalls, rt \in ElapsedTimes :
        /\ nCalls < MaxPlainCalls
        /\ RouteQuery(x.query, "s1", None,
                      [ok |-> TRUE, text |-> x.raw, error |-> ""], Answered,
                      TRUE, TRUE, rt)

NextDispatch == DoRouteQueryPlain

SpecDispatch == InitDispatch /\ [][NextDispatch]_vars

----------------------------------------------------------------------------
(* The dispatcher with only the cache switched on, called with filters *)

FilterChoices == {None, Some(F_one), Some(F_two)}
FilterAnswers == {A_ok, A_no}

InitFilters ==
    /\ Init
    /\ enable_cache /\ ~enable_memory /\ ~enable_monitoring
    /\ cacheFile = EmptyMap

DoRouteQueryFilters ==
    \E filters \in FilterChoices, raw \in {Raw_knowledge, Raw_Marketing},
       answer \in FilterAnswers, rt \in ElapsedTimes :
        RouteQuery(Q_hi, "s1", filters,
                   [ok |-> TRUE, text |-> raw, error |-> ""],
                   [ok |-> TRUE, text |-> answer, error |-> ""],
                   TRUE, TRUE, rt)

NextFilters == DoRouteQueryFilters \/ Tick

SpecFilters == InitFilters /\ [][NextFilters]_vars

(* the cache on its own, starting without a file *)
InitCache ==
    /\ Init
    /\ enable_cache /\ enable_memory /\ enable_monitoring
    /\ cacheFile = EmptyMap

DoCacheGet ==
    \E r \in CacheRequests : CacheGet(r.query, r.agent_type, r.filters)

DoCacheSet ==
    \E r \in CacheRequests, response \in CacheResponses :
        CacheSet(r.query, r.agent_type, response, r.filters)

NextCache == DoCacheGet \/ DoCacheSet \/ CacheClear \/ CacheClearExpired \/ Tick

SpecCache == InitCache /\ [][NextCache]_vars

----------------------------------------------------------------------------
(* ConversationMemory on its own; writes to the session files succeed.    *)
(* appendLog[s] is the history of s as this instance built it: what       *)
(* load_session read, followed by every exchange add_exchange appended.   *)

MaxHistoryChoices == 0..MaxMaxHistory
LastNChoices == {None, Some(0), Some(1), Some(2)}
MemQueries == {Q_hi, Q_sms}

(* every subsystem just constructed over empty folders *)
InitFresh ==
    /\ enable_cache = TRUE
    /\ enable_memory = TRUE
    /\ enable_monitoring = TRUE
    /\ cache = EmptyMap
    /\ cacheFile = EmptyMap
    /\ sessions = EmptyMap
    /\ memFiles = EmptyMap
    /\ metrics = <<>>
    /\ logFile = <<>>
    /\ now = 0
    /\ lastCall = NoCall
    /\ lastCache = NoCacheOp
    /\ nOps = 0
    /\ nCalls = 0
    /\ nRaised = 0
    /\ appendLog = EmptyMap
    /\ lastMem = NoMemOp
    /\ peerSessions = EmptyMap
    /\ feedbacks = <<>>
    /\ feedbackFile = <<>>
    /\ fbUp = TRUE
    /\ lastFb = NoFbOp

InitMemory == InitFresh /\ max_history \in MaxHistoryChoices

MemOp(op, session_id, last_n, result) ==
    [seq |-> nOps + 1, op |-> op, session_id |-> session_id,
     last_n |-> last_n, result |-> result]

MemUnchanged ==
    UNCHANGED <<max_history, peerSessions, fbVars, flagVars, cacheVars,
                monVars, now, callVars, lastCache>>

(* ConversationMemory.add_exchange *)
MemAddExchange(session_id, user_query, agent_response, agent_type) ==
    /\ nOps < MaxMemOps
    /\ \E o \in {AddExchangeOutcome(sessions, memFiles, max_history,
                                    session_id, user_query, agent_response,
                                    agent_type, now, TRUE)} :
           /\ sessions' = o.sessions
           /\ memFiles' = o.files
    /\ appendLog' =
           MapPut(appendLog, session_id,
                  Append(IF session_id \in DOMAIN appendLog
                         THEN appendLog[session_id] ELSE <<>>,
                         [timestamp |-> now, user |-> user_query,
                          agent |-> agent_response,
                          agent_type |-> agent_type]))
    /\ lastMem' = MemOp("add_exchange", session_id, None, <<>>)
    /\ nOps' = nOps + 1
    /\ MemUnchanged

(* ConversationMemory.get_history *)
MemGetHistory(session_id, last_n) ==
    /\ nOps < MaxMemOps
    /\ lastMem' = MemOp("get_history", session_id, last_n,
                        GetHistory(sessions, session_id, last_n))
    /\ nOps' = nOps + 1
    /\ UNCHANGED <<memVars, appendLog>>
    /\ MemUnchanged

(* get_context_string: the text as its lines; agent answers are cut *)
ContextKept == 200
ContextChoices == {0, 1, 2}
NoHistorySentinel == <<<<"No previous conversation history.">>>>

RECURSIVE ContextLines(_)
ContextLines(history) ==
    IF history = <<>> THEN <<>>
    ELSE <<<<"">>,
           <<"User: ", history[1].user>>,
           <<"Assistant: ", Prefix(history[1].agent, ContextKept), "...">>>>
         \o ContextLines(Tail(history))

GetContextString(sess, session_id, last_n) ==
    LET history == GetHistory(sess, session_id, Some(last_n))
    IN  IF history = <<>> THEN NoHistorySentinel
        ELSE <<<<"Previous conversation:">>>> \o ContextLines(history)

(* ConversationMemory.get_context_string *)
MemGetContextString(session_id, last_n) ==
    /\ nOps < MaxMemOps
    /\ lastMem' = MemOp("get_context_string", session_id, Some(last_n),
                        GetContextString(sessions, session_id, last_n))
    /\ nOps' = nOps + 1
    /\ UNCHANGED <<memVars, appendLog>>
    /\ MemUnchanged

(* ConversationMemory.clear_session *)
MemClearSession(session_id) ==
    /\ nOps < MaxMemOps
    /\ \E o \in {ClearSessionOutcome(sessions, memFiles, session_id)} :
           /\ sessions' = o.sessions
           /\ memFiles' = o.files
           /\ appendLog' = [s \in DOMAIN o.sessions |-> appendLog[s]]
    /\ lastMem' = MemOp("clear_session", session_id, None, <<>>)
    /\ nOps' = nOps + 1
    /\ MemUnchanged

(* ConversationMemory.load_session *)
MemLoadSession(session_id) ==
    /\ nOps < MaxMemOps
    /\ \E o \in {LoadSessionOutcome(sessions, memFiles, session_id)} :
           /\ sessions' = o.sessions
           /\ appendLog' = IF o.value
                           THEN MapPut(appendLog, session_id,
                                       memFiles[session_id])
                           ELSE appendLog
    /\ lastMem' = MemOp("load_session", session_id, None, <<>>)
    /\ nOps' = nOps + 1
    /\ UNCHANGED memFiles
    /\ MemUnchanged

(* the process restarts: ConversationMemory.__init__ over the same folder *)
MemRestart ==
    /\ nOps < MaxMemOps
    /\ sessions' = EmptyMap
    /\ appendLog' = EmptyMap
    /\ lastMem' = MemOp("restart", "", None, <<>>)
    /\ nOps' = nOps + 1
    /\ UNCHANGED memFiles
    /\ MemUnchanged

DoMemAddExchange ==
    \E session_id \in Sessions, user_query \in MemQueries :
        MemAddExchange(session_id, user_query, A_ok, "knowledge")

DoMemGetHistory ==
    \E session_id \in Sessions, last_n \in LastNChoices :
        MemGetHistory(session_id, last_n)

DoMemGetContextString ==
    \E session_id \in Sessions, last_n \in ContextChoices :
        MemGetContextString(session_id, last_n)

DoMemClearSession == \E session_id \in Sessions : MemClearSession(session_id)

DoMemLoadSession == \E session_id \in Sessions : MemLoadSession(session_id)

NextMemory ==
    \/ DoMemAddExchange \/ DoMemGetHistory \/ DoMemGetContextString
    \/ DoMemClearSession \/ DoMemLoadSession \/ MemRestart

SpecMemory == InitMemory /\ [][NextMemory]_vars

----------------------------------------------------------------------------
(* Two ConversationMemory instances over one storage folder, both       *)
(* writing the session "s1"                                             *)

(* add_exchange of the second instance *)
PeerAddExchange(session_id, user_query, agent_response, agent_type) ==
    /\ nOps < MaxMemOps
    /\ \E o \in {AddExchangeOutcome(peerSessions, memFiles, max_history,
                                    session_id, user_query, agent_response,
                                    agent_type, now, TRUE)} :
           /\ peerSessions' = o.sessions
           /\ memFiles' = o.files
    /\ appendLog' =
           MapPut(appendLog, session_id,
                  Append(IF session_id \in DOMAIN appendLog
                         THEN appendLog[session_id] ELSE <<>>,
                         [timestamp |-> now, user |-> user_query,
                          agent |-> agent_response,
                          agent_type |-> agent_type]))
    /\ lastMem' = MemOp("peer_add_exchange", session_id, None, <<>>)
    /\ nOps' = nOps + 1
    /\ UNCHANGED <<sessions, max_history, fbVars, flagVars, cacheVars,
                   monVars, now, callVars, lastCache>>

InitShared == InitFresh /\ max_history = SupervisorMaxHistory

DoSharedAddExchange ==
    \E user_query \in MemQueries :
        MemAddExchange("s1", user_query, A_ok, "knowledge")

DoPeerAddExchange ==
    \E user_query \in MemQueries :
        PeerAddExchange("s1", user_query, A_no, "knowledge")

NextShared == DoSharedAddExchange \/ DoPeerAddExchange

SpecShared == InitShared /\ [][NextShared]_vars

----------------------------------------------------------------------------
(* PerformanceMonitor on its own *)

FastTime == 1
SlowTime == 9
Err_boom == "boom"

(* the calls logged: a quick success, a slow success, a slow failure *)
LoggedCalls ==
    {[time |-> FastTime, success |-> TRUE, error |-> None],
     [time |-> SlowTime, success |-> TRUE, error |-> None],
     [time |-> SlowTime, success |-> FALSE, error |-> Some(Err_boom)]}

InitMonitor == InitFresh /\ max_history = SupervisorMaxHistory

(* PerformanceMonitor.log_query *)
LogQuery(session_id, query, agent_type, response, response_time, success, error) ==
    /\ \E entry \in {LogEntry(session_id, query, agent_type, response,
                              response_time, success, error, now)} :
           /\ metrics' = Append(metrics, entry)
           /\ logFile' = Append(logFile, entry)
    /\ UNCHANGED <<memAuxVars, fbVars, flagVars, cacheVars, memVars, now,
                   callVars, lastCache, nOps>>

DoLogQuery ==
    /\ Len(logFile) < MaxLogged
    /\ \E x \in LoggedCalls :
           LogQuery("s1", Q_hi, "knowledge", A_ok, x.time, x.success, x.error)

NextMonitor == DoLogQuery

SpecMonitor == InitMonitor /\ [][NextMonitor]_vars

(* the process restarts: PerformanceMonitor.__init__ over the same log_dir *)
MonRestart ==
    /\ metrics' = <<>>
    /\ UNCHANGED <<logFile, memAuxVars, fbVars, flagVars, cacheVars, memVars,
                   now, callVars, lastCache, nOps>>

DoLogQueryFew ==
    /\ Len(logFile) < MaxLoggedRestart
    /\ \E x \in LoggedCalls, session_id \in Sessions, query \in MemQueries :
           LogQuery(session_id, query, "knowledge", A_ok, x.time, x.success,
                    x.error)

NextMonitorRestart == DoLogQueryFew \/ MonRestart

SpecMonitorRestart == InitMonitor /\ [][NextMonitorRestart]_vars

----------------------------------------------------------------------------
(* FeedbackCollector on its own *)

RatingChoices == 1..5
FeedbackAgents == {"knowledge", "marketing"}

(* FeedbackCollector.__init__ with no feedbacks.jsonl to load *)
InitFeedback == InitFresh /\ max_history = SupervisorMaxHistory

(* FeedbackCollector.add_feedback *)
AddFeedback(session_id, query, response, rating, comment, agent_type) ==
    /\ fbUp
    /\ Len(feedbacks) < MaxFeedbacks
    /\ \E feedback \in {Feedback(feedbacks, session_id, query, response,
                                 rating, comment, agent_type, now)} :
           /\ feedbacks' = Append(feedbacks, feedback)
           /\ feedbackFile' = SaveFeedback(feedbackFile, feedback)
    /\ lastFb' = [seq |-> lastFb.seq + 1, op |-> "add_feedback"]
    /\ UNCHANGED fbUp
    /\ UNCHANGED <<memAuxVars, flagVars, cacheVars, memVars, monVars, now,
                   callVars, lastCache, nOps>>

DoAddFeedback ==
    \E rating \in RatingChoices, agent_type \in FeedbackAgents :
        AddFeedback("s1", Q_hi, A_ok, rating, "", agent_type)

NextFeedback == DoAddFeedback

SpecFeedback == InitFeedback /\ [][NextFeedback]_vars

(* FeedbackCollector across restarts, over a log that can get damaged *)
FbUnchanged ==
    UNCHANGED <<memAuxVars, flagVars, cacheVars, memVars, monVars, now,
                callVars, lastCache, nOps>>

(* the process restarts: FeedbackCollector.__init__ over the same folder; *)
(* an exception of _load_feedback leaves no collector                     *)
FbRestart ==
    /\ lastFb.seq < MaxFbOps
    /\ \E o \in {LoadFeedback(feedbackFile)} :
           /\ fbUp' = ~o.raised
           /\ feedbacks' = IF o.raised THEN <<>> ELSE o.feedbacks
    /\ lastFb' = [seq |-> lastFb.seq + 1, op |-> "restart"]
    /\ UNCHANGED feedbackFile
    /\ FbUnchanged

(* something other than add_feedback leaves a line in feedbacks.jsonl *)
FbDamage(line) ==
    /\ lastFb.seq < MaxFbOps
    /\ feedbackFile' = Append(feedbackFile, line)
    /\ lastFb' = [seq |-> lastFb.seq + 1, op |-> "damage"]
    /\ UNCHANGED <<feedbacks, fbUp>>
    /\ FbUnchanged

DoAddFeedbackFew ==
    /\ lastFb.seq < MaxFbOps
    /\ \E rating \in {1, 5} : AddFeedback("s1", Q_hi, A_ok, rating, "", "knowledge")

DoFbDamage == \E line \in {BlankLine, CorruptLine} : FbDamage(line)

NextFeedbackRestart == DoAddFeedbackFew \/ DoFbDamage \/ FbRestart

SpecFeedbackRestart == InitFeedback /\ [][NextFeedbackRestart]_vars

(* the cache on its own, with writes to response_cache.json that may fail *)
DoCacheGetIO ==
    \E r \in CacheRequests, ioOK \in BOOLEAN :
        CacheGetIO(r.query, r.agent_type, r.filters, ioOK)

DoCacheSetIO ==
    \E r \in CacheRequests, response \in CacheResponses, ioOK \in BOOLEAN :
        CacheSetIO(r.query, r.agent_type, response, r.filters, ioOK)

DoCacheClearIO == \E ioOK \in BOOLEAN : CacheClearIO(ioOK)

DoCacheClearExpiredIO == \E ioOK \in BOOLEAN : CacheClearExpiredIO(ioOK)

NextCacheIO ==
    DoCacheGetIO \/ DoCacheSetIO \/ DoCacheClearIO \/ DoCacheClearExpiredIO \/ Tick

SpecCacheIO == InitCache /\ [][NextCacheIO]_vars

----------------------------------------------------------------------------
(* Properties of the dispatcher *)

CallStep == nCalls' = nCalls + 1

Last(sq) == sq[Len(sq)]

ServedFromCache(call) ==
    call.status = "returned" /\ Val(call.returned).from_cache

Dispatched(call) ==
    call.status = "returned" /\ ~Val(call.returned).from_cache

ResponderSteps == {"respond_knowledge", "respond_marketing"}

CollaboratorSteps == {"classify"} \cup ResponderSteps

CollaboratorErrors ==
    {Some(x.error) : x \in {y \in ClassifierOutcomes \cup ResponderOutcomes : ~y.ok}}

(* C1: with caching enabled and an initially empty cache, a route_query   *)
(* that completed successfully followed by a route_query with the same    *)
(* query text within the TTL is served from the cache: the second call    *)
(* returns the first call's answer with from_cache = True and runs        *)
(* neither the classifier nor a responder.                                *)
C1_RepeatServedFromCache ==
    [][(/\ CallStep
        /\ enable_cache
        /\ lastCall.seq > 0 /\ lastCall.emptyBefore
        /\ lastCall.status = "returned"
        /\ lastCall'.query = lastCall.query
        /\ now - lastCall.time <= TTL)
       => (/\ ServedFromCache(lastCall')
           /\ Val(lastCall'.returned).answer = Val(lastCall.returned).answer
           /\ Range(lastCall'.trace) \cap CollaboratorSteps = {})]_vars

(* C2: with monitoring enabled, a route_query in which classification or  *)
(* the responder raises appends exactly one log entry with success false  *)
(* and the exception's text as error, as its last step, and the same      *)
(* exception reaches the caller.                                          *)
C2_FailureLogged ==
    [][(/\ CallStep
        /\ enable_monitoring
        /\ Last(SelectSeq(lastCall'.trace, LAMBDA x : x # "log"))
              \in CollaboratorSteps
        /\ ~Dispatched(lastCall'))
       => (/\ lastCall'.status = "raised"
           /\ lastCall'.error \in CollaboratorErrors
           /\ Len(metrics') = Len(metrics) + 1
           /\ SubSeq(metrics', 1, Len(metrics)) = metrics
           /\ ~Last(metrics').success
           /\ Last(metrics').error = lastCall'.error
           /\ Last(lastCall'.trace) = "log")]_vars

C2_Witness ==
    /\ enable_monitoring
    /\ lastCall.status = "raised"
    /\ lastCall.error = Some("responder failed")
    /\ Len(metrics) = 2
    /\ ~Last(metrics).success
    /\ Last(metrics).error = Some("responder failed")

(* C3: with monitoring enabled, after N >= 1 route_query calls on a fresh *)
(* supervisor of which M raised, get_stats reports total_queries = N and  *)
(* error_count = M; cache-served calls are counted too.                   *)
C3_MonitorCompleteness ==
    (enable_monitoring /\ nCalls >= 1)
    => (/\ GetStats(metrics).total_queries = nCalls
        /\ GetStats(metrics).error_count = nRaised)

C3_Witness ==
    /\ enable_monitoring
    /\ nCalls = 2 /\ nRaised = 1
    /\ ServedFromCache(lastCall)
    /\ GetStats(metrics).total_queries = 2

(* the steps of a call in the order the dispatcher is to take them *)
StepRank(x) ==
    CASE x = "cache_get" -> 1
      [] x = "classify" -> 2
      [] x \in ResponderSteps -> 3
      [] x = "cache_set" -> 4
      [] x = "memory_add" -> 5
      [] x = "log" -> 6

DispatchSteps(call) == SelectSeq(call.trace, LAMBDA x : x # "memory_read")

(* the steps of a successful cache-miss call under the enabled flags *)
FullTrace(agent_type) ==
    (IF enable_cache THEN <<"cache_get">> ELSE <<>>)
    \o <<"classify", "respond_" \o agent_type>>
    \o (IF enable_cache THEN <<"cache_set">> ELSE <<>>)
    \o (IF enable_memory THEN <<"memory_add">> ELSE <<>>)
    \o (IF enable_monitoring THEN <<"log">> ELSE <<>>)

C5_HitShortCircuits ==
    [][(/\ CallStep
        /\ enable_cache
        /\ IsSome(GetOutcome(cache, cacheFile, lastCall'.query, "any", None,
                             now, TRUE).value))
       => (/\ lastCall'.status = "returned"
           /\ Val(lastCall'.returned).agent = "cached"
           /\ Val(lastCall'.returned).from_cache
           /\ Val(lastCall'.returned).answer =
                 Val(GetOutcome(cache, cacheFile, lastCall'.query, "any", None,
                                now, TRUE).value)
           /\ Range(lastCall'.trace) \cap CollaboratorSteps = {})]_vars

HistoryOf(sess, session_id) ==
    IF session_id \in DOMAIN sess THEN sess[session_id] ELSE <<>>

(* C6: cache and memory are written only by dispatches whose responder    *)
(* call succeeded.  A call served from the cache, or failing in           *)
(* classification or in the responder, leaves the cache entries and the   *)
(* exchange lists unchanged; a successful cache-miss dispatch appends     *)
(* exactly one exchange to its own session; and a dispatch followed by a  *)
(* repeat of the same query leaves exactly 1 exchange in the session.     *)
C6_WritesOnlyOnSuccess ==
    [][CallStep =>
        LET sid == lastCall'.session_id
            failedInCollaborator ==
                /\ lastCall'.status = "raised"
                /\ lastCall'.error \in CollaboratorErrors
        IN  /\ (ServedFromCache(lastCall') \/ failedInCollaborator)
                  => (cache' = cache /\ sessions' = sessions)
            /\ (Dispatched(lastCall') /\ enable_memory)
                  => (/\ Len(HistoryOf(sessions', sid)) =
                            Len(HistoryOf(sessions, sid)) + 1
                      /\ \A other \in DOMAIN sessions' \ {sid} :
                            /\ other \in DOMAIN sessions
                            /\ sessions'[other] = sessions[other])
            /\ (/\ enable_cache /\ enable_memory
                /\ lastCall.seq > 0 /\ Dispatched(lastCall)
                /\ lastCall.session_id = sid
                /\ lastCall.query = lastCall'.query
                /\ Len(HistoryOf(sessions, sid)) = 1
                /\ lastCall'.status = "returned")
                  => Len(HistoryOf(sessions', sid)) = 1]_vars

(* C7: a storage error while cache.set persists the cache does not reach  *)
(* the caller: when the responder has produced an answer and the cache    *)
(* write fails, route_query still returns the responder's result.         *)
C7_CacheWriteFailureTolerated ==
    (lastCall.seq > 0 /\ lastCall.fault = Some("cache_set"))
    => (/\ lastCall.status = "returned"
        /\ Val(lastCall.returned).agent = Val(lastCall.invoked).agent)

----------------------------------------------------------------------------
(* Properties of the cache *)

RequestKey(op) == GenerateKey(op.query, op.agent_type, op.filters)

GetStep == lastCache'.op = "get" /\ lastCache'.seq = lastCache.seq + 1

(* C8: with TTL t, a get on an entry written at T and read later than     *)
(* T + t reports a miss (so it is no hit) and leaves the entry neither in *)
(* the in-memory cache nor in the persisted copy.                         *)
C8_ExpiredGetEvicts ==
    (/\ lastCache.op = "get"
     /\ IsSome(lastCache.found)
     /\ lastCache.time > Val(lastCache.found).timestamp + TTL)
    => (/\ lastCache.value = None
        /\ RequestKey(lastCache) \notin DOMAIN cache
        /\ RequestKey(lastCache) \notin DOMAIN cacheFile)

C8_Witness ==
    /\ lastCache.op = "get"
    /\ IsSome(lastCache.found)
    /\ lastCache.time = Val(lastCache.found).timestamp + 2 * TickHours
    /\ lastCache.value = None
    /\ DOMAIN cache # {}

PairSet(filters) == IF IsNone(filters) THEN {} ELSE Range(Val(filters))

(* two requests that differ only incidentally *)
SameRequest(a, b) ==
    /\ Lower(Strip(a.query)) = Lower(Strip(b.query))
    /\ a.agent_type = b.agent_type
    /\ PairSet(a.filters) = PairSet(b.filters)

(* C9: two requests whose query texts are equal after trimming and case   *)
(* folding, with the same agent tag and the same filter pairs in any key  *)
(* order, address one cache entry: a response stored by set through one   *)
(* is returned by a get through the other (within the TTL).               *)
C9_FingerprintEquality ==
    [][(/\ GetStep
        /\ lastCache.op = "set"
        /\ SameRequest(lastCache, lastCache')
        /\ now - lastCache.time <= TTL)
       => lastCache'.value = lastCache.value]_vars

C9_Witness ==
    /\ lastCache.op = "get"
    /\ lastCache.query = Q_Hi_sp
    /\ lastCache.filters = Some(F_two_rev)
    /\ IsSome(lastCache.found)
    /\ Val(lastCache.found).query = Q_hi
    /\ Val(lastCache.found).filters = Some(F_two)
    /\ lastCache.value = Some(A_ok)

WithinTTL(op) ==
    /\ IsSome(op.found)
    /\ op.time - Val(op.found).timestamp <= TTL

(* C10: a get within the TTL returns the stored response and leaves       *)
(* total_entries as it was, and a second get for the same (query,         *)
(* agent_type, filters) right after it, also within the TTL, returns the  *)
(* same response.                                                         *)
C10_GetIdempotent ==
    [][GetStep =>
        /\ WithinTTL(lastCache')
              => (/\ lastCache'.value = Some(Val(lastCache'.found).response)
                  /\ TotalEntries(cache') = TotalEntries(cache))
        /\ (/\ lastCache.op = "get"
            /\ WithinTTL(lastCache)
            /\ lastCache'.query = lastCache.query
            /\ lastCache'.agent_type = lastCache.agent_type
            /\ lastCache'.filters = lastCache.filters
            /\ now - Val(lastCache.found).timestamp <= TTL)
              => lastCache'.value = lastCache.value]_vars

C10_Witness ==
    /\ lastCache.op = "get"
    /\ lastCache.seq = 3
    /\ WithinTTL(lastCache)
    /\ lastCache.time = Val(lastCache.found).timestamp + TTL
    /\ lastCache.value = Some(A_ok)
    /\ TotalEntries(cache) = 1

----------------------------------------------------------------------------
(* Properties of the cache statistics and of its file *)

CacheStep == lastCache'.seq = lastCache.seq + 1

CounterFields == {"total_hits", "total_misses"}

(* C11: get_stats reports total_hits and total_misses; a get that returns *)
(* a stored response adds one to total_hits, a get that reports absent    *)
(* adds one to total_misses, and no call on the cache (evicting,          *)
(* overwriting, clearing) ever lowers either counter                      *)
C11_HitMissCounters ==
    [][CacheStep =>
        LET before == CacheStats(cache)
            after == CacheStats(cache')
            isGet == lastCache'.op = "get"
            hit == isGet /\ IsSome(lastCache'.value)
            miss == isGet /\ IsNone(lastCache'.value)
        IN  /\ CounterFields \subseteq DOMAIN before
            /\ CounterFields \subseteq DOMAIN after
            /\ after.total_hits = before.total_hits + (IF hit THEN 1 ELSE 0)
            /\ after.total_misses =
                   before.total_misses + (IF miss THEN 1 ELSE 0)]_vars

(* a call that changes the mapping or always writes it *)
MutatingStep ==
    /\ CacheStep
    /\ \/ lastCache'.op \in {"set", "clear"}
       \/ cache' # cache

----------------------------------------------------------------------------
(* Properties of the conversation memory *)

(* the last min(Len(h), k) elements of h, oldest first *)
LastMin(h, k) == SubSeq(h, Len(h) - Min(Len(h), k) + 1, Len(h))

MemStep(op) == lastMem'.op = op /\ lastMem'.seq = lastMem.seq + 1

(* C13: for every max_history >= 1, after n add_exchange calls for a       *)
(* session get_history(session) is exactly the last min(n, max_history)    *)
(* appended exchanges, in the order they were appended                     *)
C13_SlidingWindow ==
    max_history >= 1 =>
        \A s \in DOMAIN appendLog :
            GetHistory(sessions, s, None) = LastMin(appendLog[s], max_history)

C13_Witness ==
    /\ max_history = 3
    /\ \E s \in DOMAIN appendLog :
        /\ Len(appendLog[s]) = 5
        /\ appendLog[s][2].user # appendLog[s][5].user
        /\ appendLog[s][3].user # appendLog[s][4].user
        /\ GetHistory(sessions, s, None) =
               <<appendLog[s][3], appendLog[s][4], appendLog[s][5]>>

(* C14: get_history(s, last_n) with last_n >= 1 returns the most recent    *)
(* min(last_n, length) exchanges of s oldest first, without last_n it      *)
(* returns all of them, and for a session never seen it returns the empty  *)
(* list and does not create the session                                    *)
C14_GetHistory ==
    [][MemStep("get_history") =>
        LET s == lastMem'.session_id
            n == lastMem'.last_n
            h == IF s \in DOMAIN sessions THEN sessions[s] ELSE <<>>
        IN  /\ (IsSome(n) /\ Val(n) >= 1) => lastMem'.result = LastMin(h, Val(n))
            /\ IsNone(n) => lastMem'.result = h
            /\ s \notin DOMAIN sessions =>
                   (lastMem'.result = <<>> /\ s \notin DOMAIN sessions')
            /\ sessions' = sessions]_vars

C14_Witness ==
    /\ lastMem.op = "get_history"
    /\ lastMem.last_n = Some(2)
    /\ lastMem.session_id \in DOMAIN sessions
    /\ LET h == sessions[lastMem.session_id]
       IN  /\ Len(h) = 3
           /\ h[1].user # h[3].user
           /\ lastMem.result = <<h[2], h[3]>>

(* C15: after clear_session(s) neither an in-memory history nor a file of  *)
(* s remains, whatever was there before (a file of a session this instance *)
(* never loaded included), and clearing a session with no state changes    *)
(* nothing                                                                 *)
C15_ClearRemovesAll ==
    [][MemStep("clear_session") =>
        LET s == lastMem'.session_id
        IN  /\ s \notin DOMAIN sessions'
            /\ s \notin DOMAIN memFiles'
            /\ (s \notin DOMAIN sessions /\ s \notin DOMAIN memFiles) =>
                   (sessions' = sessions /\ memFiles' = memFiles)]_vars

(* C16: the first add_exchange for s of a fresh instance, when a file of s *)
(* written by an earlier instance exists, leaves in the file the earlier   *)
(* exchanges followed by the new one, cut to the last max_history          *)
C16_HistorySurvivesRestart ==
    [][(/\ MemStep("add_exchange")
        /\ max_history >= 1
        /\ lastMem'.session_id \notin DOMAIN sessions
        /\ lastMem'.session_id \in DOMAIN memFiles)
       => LET s == lastMem'.session_id
          IN  memFiles'[s] =
                  LastMin(Append(memFiles[s], Last(sessions'[s])),
                          max_history)]_vars

----------------------------------------------------------------------------
(* Properties of the performance monitor *)

(* C17: get_stats reflects the whole persisted query log, entries written  *)
(* before a restart included: total_queries is the number of entries in    *)
(* the log on disk                                                         *)
C17_StatsReflectLog == GetStats(metrics).total_queries = Len(logFile)

IsSlow(m, i) ==
    m[i].response_time_seconds * Len(m) >
        2 * SumTimes(SubSeq(m, 1, Len(m)))

(* C18: with fewer than 5 entries logged detect_anomalies returns the      *)
(* empty list, whatever their response times and outcomes                  *)
C18_AnomalyFloor ==
    Len(metrics) < 5 => DetectAnomalies(metrics) = <<>>

C18_Witness ==
    /\ Len(metrics) = 4
    /\ \E i \in 1..4 : ~metrics[i].success
    /\ \E i \in 1..4 : IsSlow(metrics, i)
    /\ DetectAnomalies(metrics) = <<>>

(* indices of the last 10 entries *)
RecentIdx(m) == {i \in 1..Len(m) : i > Len(m) - 10}

OfType(anomalies, type) == SelectSeq(anomalies, LAMBDA a : a.type = type)

(* C19: with at least 5 entries detect_anomalies returns one slow_query    *)
(* anomaly for each of the last 10 entries whose time exceeds twice the    *)
(* mean time of all entries, one error anomaly for each of the last 10     *)
(* that failed, and nothing else; older entries are never reported         *)
C19_AnomaliesOfRecent ==
    Len(metrics) >= 5 =>
        LET found == DetectAnomalies(metrics)
            slow == {i \in RecentIdx(metrics) : IsSlow(metrics, i)}
            failed == {i \in RecentIdx(metrics) : ~metrics[i].success}
        IN  /\ Len(OfType(found, "slow_query")) = Cardinality(slow)
            /\ Len(OfType(found, "error")) = Cardinality(failed)
            /\ Len(found) = Cardinality(slow) + Cardinality(failed)

C19_Witness ==
    /\ Len(metrics) = 11
    /\ ~metrics[1].success
    /\ IsSlow(metrics, 1)
    /\ \E i \in RecentIdx(metrics) : IsSlow(metrics, i) /\ metrics[i].success
    /\ \E i \in RecentIdx(metrics) : ~metrics[i].success
    /\ \E i \in RecentIdx(metrics) : ~IsSlow(metrics, i) /\ metrics[i].success
    /\ Len(DetectAnomalies(metrics)) = 3

----------------------------------------------------------------------------
(* Properties of the feedback statistics *)

RatedAtLeast4 == {i \in 1..Len(feedbacks) : feedbacks[i].rating >= 4}
RatedBelow4 == {i \in 1..Len(feedbacks) : feedbacks[i].rating < 4}

(* C20: once feedback is stored, get_feedback_stats reports thumbs_up as   *)
(* the number of all stored entries rated 4 or more and thumbs_down as     *)
(* the number of all stored entries rated less than 4, whatever the mix    *)
(* of agent types, so the two add up to total_feedbacks                    *)
C20_ThumbsCountAll ==
    Len(feedbacks) > 0 =>
        LET stats == GetFeedbackStats(feedbacks)
        IN  /\ stats.thumbs_up = Cardinality(RatedAtLeast4)
            /\ stats.thumbs_down = Cardinality(RatedBelow4)
            /\ stats.thumbs_up + stats.thumbs_down = stats.total_feedbacks

AllRatings == [i \in 1..Len(feedbacks) |-> feedbacks[i].rating]

(* the claim in its own words: satisfaction_rate is 100 * satisfied /     *)
(* total and avg_rating is the mean of the ratings, exactly               *)
C21_ExactRates ==
    Len(feedbacks) > 0 =>
        LET stats == GetFeedbackStats(feedbacks)
            total == Len(feedbacks)
        IN  /\ stats.satisfaction_rate * total =
                   1000 * Cardinality(RatedAtLeast4)
            /\ stats.avg_rating * total = 100 * SumSeq(AllRatings)

(* x is a value nearest to num / den among the integers *)
Nearest(x, num, den) ==
    /\ 2 * (x * den - num) <= den
    /\ 2 * (num - x * den) <= den

(* C21: starting from an empty store, get_feedback_stats reports          *)
(* satisfaction_rate as 100 * (entries rated 4 or more) / total rounded   *)
(* to one decimal and avg_rating as the mean of all ratings rounded to    *)
(* two decimals; for the ratings 5, 4, 2, 5, 3 these are 60.0 and 3.8     *)
C21_RoundedRates ==
    Len(feedbacks) > 0 =>
        LET stats == GetFeedbackStats(feedbacks)
            total == Len(feedbacks)
        IN  /\ Nearest(stats.satisfaction_rate,
                       1000 * Cardinality(RatedAtLeast4), total)
            /\ Nearest(stats.avg_rating, 100 * SumSeq(AllRatings), total)
            /\ AllRatings = <<5, 4, 2, 5, 3>> =>
                   (stats.satisfaction_rate = 600 /\ stats.avg_rating = 380)

C21_Witness ==
    /\ AllRatings = <<5, 4, 2, 5, 3>>
    /\ GetFeedbackStats(feedbacks).satisfaction_rate = 600
    /\ GetFeedbackStats(feedbacks).avg_rating = 380
    /\ Cardinality({feedbacks[i].agent_type : i \in 1..5}) = 2

----------------------------------------------------------------------------
(* Properties of classification and of the campaign parameters *)

(* a and b are the same letter in either case, or the same character *)
SameIgnoringCase(a, b) ==
    \/ a = b
    \/ \E k \in DOMAIN UpperLetters :
           {a, b} \subseteq {UpperLetters[k], LowerLetters[k]}

(* word occurs in text, whatever the case of the letters of text *)
Occurs(word, text) ==
    \E i \in 0..(Len(text) - Len(word)) :
        \A j \in 1..Len(word) : SameIgnoringCase(text[i + j], word[j])

Classified == lastCall.status = "returned" /\ IsSome(lastCall.raw)

(* C22: a call is classified 'marketing' exactly when the classifier's    *)
(* response contains 'marketing' in any letter case and 'knowledge' for   *)
(* every other response, never anything else; the marketing responder is  *)
(* invoked only after such a response                                     *)
C22_ClassifyBySubstring ==
    Classified =>
        LET raw == Val(lastCall.raw)
            agent == Val(lastCall.returned).agent
        IN  /\ agent \in {"marketing", "knowledge"}
            /\ agent = "marketing" <=> Occurs(W_marketing, raw)
            /\ Val(lastCall.invoked).agent = agent

C22_Witness ==
    /\ Classified
    /\ lastCall.raw = Some(R_space \o R_MARKETING)
    /\ Val(lastCall.returned).agent = "marketing"
    /\ Val(lastCall.invoked).agent = "marketing"

(* the value of the first pair <<keywords, value>> with a keyword that *)
(* occurs in the text, or the default                                    *)
RECURSIVE FirstMatch(_, _, _)
FirstMatch(order, text, default) ==
    IF order = <<>> THEN default
    ELSE IF \E w \in Head(order)[1] : Occurs(w, text) THEN Head(order)[2]
    ELSE FirstMatch(Tail(order), text, default)

FormatOrder ==
    <<<<{W_email}, "email">>, <<{W_sms}, "sms">>, <<{W_blog}, "blog">>,
      <<{W_poster}, "poster">>>>

AudienceOrder ==
    <<<<{W_self_hyphen, W_self_space}, "self_employed">>,
      <<{W_young}, "young_professionals">>,
      <<{W_family, W_families}, "families">>>>

(* C23: when the classification is marketing, the responder is invoked   *)
(* with the format of the first of email, sms, blog, poster that occurs  *)
(* in the query (social_media when none does) and the audience of the    *)
(* first of self-employed / self employed, young, family / families     *)
(* (salaried when none does), whatever the letter case of the query      *)
C23_CampaignParameters ==
    (Classified /\ Val(lastCall.returned).agent = "marketing") =>
        LET inv == Val(lastCall.invoked)
        IN  /\ inv.agent = "marketing"
            /\ inv.campaign_type =
                   FirstMatch(FormatOrder, lastCall.query, "social_media")
            /\ inv.target_audience =
                   FirstMatch(AudienceOrder, lastCall.query, "salaried")

C23_Witness ==
    /\ Classified
    /\ lastCall.query = W_sms \o <<" ">> \o T_Email
    /\ Val(lastCall.invoked).campaign_type = "email"
    /\ Val(lastCall.invoked).target_audience = "salaried"

----------------------------------------------------------------------------
(* Properties of the feedback log across restarts *)

(* the records of the parsable lines of the log, in order *)
ValidRecords(file) ==
    LET ok == SelectSeq(file, LAMBDA line : line.kind = "json")
    IN  [i \in 1..Len(ok) |-> ok[i].value]

FbStep(op) == lastFb'.op = op /\ lastFb'.seq = lastFb.seq + 1

(* C24: constructing a FeedbackCollector over a log with a corrupt record *)
(* succeeds, skips the corrupt record and loads the valid ones            *)
C24_CorruptRecordSkipped ==
    [][FbStep("restart") =>
        (fbUp' /\ feedbacks' = ValidRecords(feedbackFile))]_vars

----------------------------------------------------------------------------
(* Properties of the dispatcher's use of filters *)

(* the entries of a mapping kept for a query text and an agent type *)
EntriesFor(c, query, agent_type) ==
    {k \in DOMAIN c : c[k].query = query /\ c[k].agent_type = agent_type}

(* C25: when route_query(q, F1) and then route_query(q, F2) with another *)
(* filter set both return a generated answer under the same               *)
(* classification, the cache holds one entry for each of the two          *)
(* requests, the entry of the first is left as it was, and the second     *)
(* call is not answered from it                                           *)
C25_FiltersKeptApart ==
    [][(/\ CallStep
        /\ Dispatched(lastCall) /\ lastCall.status = "returned"
        /\ Dispatched(lastCall') /\ lastCall'.status = "returned"
        /\ lastCall'.query = lastCall.query
        /\ PairSet(lastCall'.filters) # PairSet(lastCall.filters)
        /\ Val(lastCall'.returned).agent = Val(lastCall.returned).agent)
       => LET q == lastCall.query
              agent == Val(lastCall.returned).agent
          IN  /\ Cardinality(EntriesFor(cache', q, agent)) >= 2
              /\ \A k \in EntriesFor(cache, q, agent) :
                     k \in DOMAIN cache' /\ cache'[k] = cache[k]
              /\ ~Val(lastCall'.returned).from_cache]_vars

(* C26: the log entry of a route_query call that returns normally has     *)
(* success true and records the agent tag and the answer length of the    *)
(* result the call returned; a call served from the cache is logged with  *)
(* agent type 'cached' and the length of the cached answer                *)
C26_LogMatchesReturned ==
    [][(CallStep /\ enable_monitoring /\ lastCall'.status = "returned")
       => LET entry == Last(metrics')
              returned == Val(lastCall'.returned)
          IN  /\ Len(metrics') = Len(metrics) + 1
              /\ entry.success
              /\ entry.agent_type = returned.agent
              /\ entry.response_length = Len(returned.answer)]_vars

(* the entries of a mapping kept for a query text *)
EntriesOfQuery(c, query) == {k \in DOMAIN c : c[k].query = query}

(* C27: a route_query call that raises leaves no new and no changed       *)
(* cache entry for its query: every entry the cache holds for the query   *)
(* after the call was there, with the same content, before it; so a       *)
(* memory write that fails after the cache write does not leave the       *)
(* answer in the cache                                                    *)
C27_RaisedCallLeavesCache ==
    [][(CallStep /\ lastCall'.status = "raised")
       => \A k \in EntriesOfQuery(cache', lastCall'.query) :
              k \in DOMAIN cache /\ cache[k] = cache'[k]]_vars

----------------------------------------------------------------------------
(* Properties of two writers of one session *)

(* the exchanges an instance holds for a session *)
Held(sess, session_id) ==
    IF session_id \in DOMAIN sess THEN sess[session_id] ELSE <<>>

(* C28: with two ConversationMemory instances over the same storage that  *)
(* interleave add_exchange for one session id, every add_exchange         *)
(* rewrites the whole file with the writer's own list, so the persisted   *)
(* list of a session can miss an exchange the other writer appended       *)
(* (the witness is such a final state)                                    *)
C28_WholeFileRewrite ==
    [][/\ MemStep("add_exchange")
          => memFiles'[lastMem'.session_id]
                 = Held(sessions', lastMem'.session_id)
       /\ MemStep("peer_add_exchange")
          => memFiles'[lastMem'.session_id]
                 = Held(peerSessions', lastMem'.session_id)]_vars

(* both writers appended to "s1", the window was never full, and the      *)
(* file lacks an exchange of the first writer                             *)
C28_Witness ==
    /\ "s1" \in DOMAIN sessions /\ "s1" \in DOMAIN peerSessions
    /\ Len(appendLog["s1"]) <= max_history
    /\ \E i \in 1..Len(sessions["s1"]) :
           sessions["s1"][i] \notin Range(memFiles["s1"])
    /\ \E i \in 1..Len(appendLog["s1"]) :
           appendLog["s1"][i] \notin Range(memFiles["s1"])

----------------------------------------------------------------------------
(* Properties of the window bound and of last_n = 0 *)

(* C29: for every max_history, 0 included, after any add_exchange the     *)
(* session's list in memory and its persisted list hold at most           *)
(* max_history exchanges                                                  *)
C29_WindowBound ==
    [][MemStep("add_exchange") =>
        LET s == lastMem'.session_id
        IN  /\ Len(sessions'[s]) <= max_history
            /\ Len(memFiles'[s]) <= max_history]_vars

(* C30: get_history(s, last_n=0) on a session holding at least one        *)
(* exchange returns the empty list, and get_context_string(s, 0) returns  *)
(* the no-history sentinel                                                *)
C30_LastNZero ==
    [][(/\ lastMem'.last_n = Some(0)
        /\ lastMem'.session_id \in DOMAIN sessions
        /\ Len(Held(sessions, lastMem'.session_id)) >= 1)
       => /\ MemStep("get_history") => lastMem'.result = <<>>
          /\ MemStep("get_context_string") =>
                 lastMem'.result = NoHistorySentinel]_vars

====
